---- MODULE Spec2Model ----
(***************************************************************************)
(* Model of the video -> mp3 -> txt pipeline of mp4_mp3_txt:               *)
(*   video_to_mp3.py : extraer_audio, obtener_duracion_audio,              *)
(*                     dividir_audio, convertir_videos_a_mp3               *)
(*   mp3_to_txt.py   : transcribir_audio, transcribir_mp3s_a_txt,          *)
(*                     unir_archivos_relacionados                          *)
(*                                                                         *)
(* A file name is modelled by its stem <<base, n>>: <<b, 0>> is the stem   *)
(* "b" and <<b, n>>, n > 0, is the stem "b_part{n}".  A directory is a     *)
(* function from the stems of the files it holds to their contents.  Text  *)
(* is a sequence of characters.  Stems with two _part suffixes             *)
(* ("b_part1_part2") are outside the name space of the model.              *)
(***************************************************************************)
EXTENDS Integers, Sequences, FiniteSets, TLC

VARIABLES
    videos,               \* videos/ : stem of a video -> the audio track it holds
    mp3,                  \* mp3/    : stem -> audio record
    txt,                  \* txt/    : stem -> text
    load_model_per_file,  \* WHISPER_LOAD_PER_FILE
    pc,                   \* position in transcribir_mp3s_a_txt
    todo,                 \* mp3_files not yet visited by the loop of the run
    cur,                  \* the mp3_file of the current iteration, <<>> if none
    model,                \* the Whisper model held: "none" or "loaded"
    success_count,        \* success_count of the run
    n_files,              \* len(mp3_files) of the run
    results,              \* return values of the finished runs, oldest first
    invoked,              \* units given to model.transcribe in the current run
    built,                \* base -> part numbers read into its last merge
    unir_err,             \* failures of the last unir_archivos_relacionados
    left_by_unir,         \* txt/ is as the last unir_archivos_relacionados left it
    faults,               \* number of I/O and tool failures so far
    cpc,                  \* position in convertir_videos_a_mp3
    vtodo,                \* video_files not yet visited
    vcur,                 \* the video_file of the current iteration, <<>> if none
    conv_success,         \* success_count of convertir_videos_a_mp3
    conv_results,         \* return values of the finished conversions
    split,                \* the last call of dividir_audio and its result
    scan,                 \* the part files of txt/ as the last directory scan gave them
    proc                  \* the two scripts run as processes: their states

vars == <<videos, mp3, txt, load_model_per_file, pc, todo, cur, model,
          success_count, n_files, results, invoked, built, unir_err,
          left_by_unir, faults, cpc, vtodo, vcur, conv_success, conv_results, split,
          scan, proc>>

txtVars == <<txt, load_model_per_file, pc, todo, cur, model, success_count,
             n_files, results, invoked, built, unir_err, left_by_unir>>

convVars == <<videos, cpc, vtodo, vcur, conv_success, conv_results, split>>

mainVars == <<scan, proc>>

(***************************************************************************)
(* Bounds                                                                  *)
(***************************************************************************)
\* largest part number of a stem, and most chunks a split produces
MaxPart == 3

\* most runs of transcribir_mp3s_a_txt / convertir_videos_a_mp3
MaxRuns == 2

\* most I/O and tool failures in one behaviour
MaxFaults == 2

\* largest part number of the directories given to unir_archivos_relacionados
MaxNum == 10

\* most part files of a directory whose scan orders are all tried
MaxGroup == 3

(***************************************************************************)
(* Names and directories                                                   *)
(***************************************************************************)
Bases == {"a", "b"}

Names == Bases \X (0..MaxPart)

NoUnit == <<>>

EmptyDir == [n \in {} |-> <<>>]

Put(d, n, c) == [m \in (DOMAIN d) \cup {n} |-> IF m = n THEN c ELSE d[m]]

Unlink(d, n) == [m \in (DOMAIN d) \ {n} |-> d[m]]

UnlinkAll(d, S) == [m \in (DOMAIN d) \ S |-> d[m]]

(***************************************************************************)
(* Text                                                                    *)
(***************************************************************************)
Sep == <<"\n", "\n">>

IsSpace(c) == c \in {" ", "\n"}

RECURSIVE LStrip(_)
LStrip(s) ==
    IF s = <<>> THEN s
    ELSE IF IsSpace(Head(s)) THEN LStrip(Tail(s)) ELSE s

RECURSIVE RStrip(_)
RStrip(s) ==
    IF s = <<>> THEN s
    ELSE IF IsSpace(s[Len(s)]) THEN RStrip(SubSeq(s, 1, Len(s) - 1)) ELSE s

\* str.strip()
Strip(s) == RStrip(LStrip(s))

\* the texts result["text"] ranges over: Whisper's leading blank, a plain
\* text, and a text of white space only
Texts == { <<" ", "A">>, <<"B">>, <<" ">> }

\* what a failed f.write(texto) may leave in the opened file
Prefixes(s) == { SubSeq(s, 1, k) : k \in 0..(Len(s) - 1) }

(***************************************************************************)
(* unir_archivos_relacionados (mp3_to_txt.py 208-265)                      *)
(***************************************************************************)
\* pattern = ^(.+)_part(\d+)\.txt$ : the stem carries a part number
PatternMatch(n) == n[2] > 0

\* grupos: base_name -> the part numbers of its matching files
Grupos(d) ==
    [b \in {n[1] : n \in {m \in DOMAIN d : PatternMatch(m)}} |->
        {n[2] : n \in {m \in DOMAIN d : PatternMatch(m) /\ m[1] = b}}]

\* a descending sort, the slip of a reversed comparison
RECURSIVE SortPartesDesc(_)
SortPartesDesc(S) ==
    IF S = {} THEN <<>>
    ELSE LET m == CHOOSE x \in S : \A y \in S : x >= y
         IN  <<m>> \o SortPartesDesc(S \ {m})

\* partes.sort(key=lambda x: x[0])
RECURSIVE SortPartes(_)
SortPartes(S) ==
    IF S = {} THEN <<>>
    ELSE LET m == CHOOSE x \in S : \A y \in S : x <= y
         IN  <<m>> \o SortPartes(S \ {m})

\* what the loop of lines 245-252 writes to f_out for partes[i..last]
RECURSIVE Escribir(_, _, _, _, _)
Escribir(d, b, ps, i, last) ==
    IF i > last THEN <<>>
    ELSE LET contenido == Strip(d[<<b, ps[i]>>])
             escrito == IF contenido # <<>>
                        THEN contenido \o (IF i < Len(ps) THEN Sep ELSE <<>>)
                        ELSE <<>>
         IN  escrito \o Escribir(d, b, ps, i + 1, last)

\* the failures one group may meet: open(archivo_unificado) raises, or the
\* read of the read-th part raises, or unlink raises for the parts in unlink
GroupFaults(ps) ==
    {f \in [open : BOOLEAN, read : 0..Len(ps),
            unlink : SUBSET {ps[i] : i \in 1..Len(ps)}] :
        /\ f.open => (f.read = 0 /\ f.unlink = {})
        /\ f.read > 0 => f.unlink = {}}

MergeFailed(f) == f.open \/ f.read > 0

FaultCost(f) == (IF MergeFailed(f) THEN 1 ELSE 0) + Cardinality(f.unlink)

RECURSIVE SumCost(_, _)
SumCost(fs, S) ==
    IF S = {} THEN 0
    ELSE LET b == CHOOSE x \in S : TRUE
         IN  FaultCost(fs[b]) + SumCost(fs, S \ {b})

\* a body of the group loop that deletes no part file
UnirGrupoKeepParts(d, b, ps, f) ==
    IF f.open THEN d
    ELSE IF f.read > 0 THEN Put(d, <<b, 0>>, Escribir(d, b, ps, 1, f.read - 1))
    ELSE Put(d, <<b, 0>>, Escribir(d, b, ps, 1, Len(ps)))

\* one iteration of the loop over grupos.items() (lines 234-265)
UnirGrupo(d, b, ps, f) ==
    IF f.open THEN d
    ELSE IF f.read > 0 THEN Put(d, <<b, 0>>, Escribir(d, b, ps, 1, f.read - 1))
    ELSE UnlinkAll(Put(d, <<b, 0>>, Escribir(d, b, ps, 1, Len(ps))),
                   {<<b, ps[i]>> : i \in {j \in 1..Len(ps) : ps[j] \notin f.unlink}})

RECURSIVE UnirLoop(_, _, _, _)
UnirLoop(d, grupos, order, fs) ==
    IF order = <<>> THEN d
    ELSE LET b == Head(order)
         IN  UnirLoop(UnirGrupo(d, b, SortPartes(grupos[b]), fs[b]),
                      grupos, Tail(order), fs)

\* the orders in which the directory scan may have filled grupos
Orders(S) ==
    {o \in [1..Cardinality(S) -> S] :
        \A i, j \in 1..Cardinality(S) : i # j => o[i] # o[j]}

unir_archivos_relacionados(d, order, fs) ==
    IF DOMAIN Grupos(d) = {} THEN d
    ELSE UnirLoop(d, Grupos(d), order, fs)

\* the decimal digits of n, as the file name spells part number n
RECURSIVE Digits(_)
Digits(n) ==
    IF n < 10 THEN <<n>> ELSE Digits(n \div 10) \o <<n % 10>>

\* s comes before t in the order of file names, digit by digit
RECURSIVE LexLess(_, _)
LexLess(s, t) ==
    IF t = <<>> THEN FALSE
    ELSE IF s = <<>> THEN TRUE
    ELSE IF Head(s) # Head(t) THEN Head(s) < Head(t)
    ELSE LexLess(Tail(s), Tail(t))

RECURSIVE InsertLex(_, _)
InsertLex(x, s) ==
    IF s = <<>> THEN <<x>>
    ELSE IF LexLess(Digits(x), Digits(Head(s))) THEN <<x>> \o s
    ELSE <<Head(s)>> \o InsertLex(x, Tail(s))

\* a sort by the spelling of the part number, the order of the file names
RECURSIVE PartesSortLex(_)
PartesSortLex(partes) ==
    IF partes = <<>> THEN <<>>
    ELSE InsertLex(partes[Len(partes)],
                   PartesSortLex(SubSeq(partes, 1, Len(partes) - 1)))

RECURSIVE Insert(_, _)
Insert(x, s) ==
    IF s = <<>> THEN <<x>>
    ELSE IF x < Head(s) THEN <<x>> \o s
    ELSE <<Head(s)>> \o Insert(x, Tail(s))

\* partes.sort(key=lambda x: x[0]) on the list in scan order: a stable
\* sort by the number int(match.group(2))
RECURSIVE PartesSort(_)
PartesSort(partes) ==
    IF partes = <<>> THEN <<>>
    ELSE Insert(partes[Len(partes)],
                PartesSort(SubSeq(partes, 1, Len(partes) - 1)))

\* the files of d that match the pattern
Matching(d) == {n \in DOMAIN d : PatternMatch(n)}

\* grupos[b] as lines 221-227 fill it: the part numbers of base b in the
\* order the scan returns its files
PartesDe(sc, b) ==
    LET DeBase(n) == n[1] = b
        fs == SelectSeq(sc, DeBase)
    IN  [i \in 1..Len(fs) |-> fs[i][2]]

\* the keys of grupos in insertion order: bases by their first file in the scan
RECURSIVE GruposOrder(_, _)
GruposOrder(sc, seen) ==
    IF sc = <<>> THEN <<>>
    ELSE IF Head(sc)[1] \in seen THEN GruposOrder(Tail(sc), seen)
    ELSE <<Head(sc)[1]>> \o GruposOrder(Tail(sc), seen \cup {Head(sc)[1]})

\* a loop that ends at the first group whose merge fails, as if the try
\* enclosed the loop
RECURSIVE UnirLoopScanAbort(_, _, _, _)
UnirLoopScanAbort(d, sc, order, fs) ==
    IF order = <<>> THEN d
    ELSE LET b == Head(order)
             r == UnirGrupo(d, b, PartesSort(PartesDe(sc, b)), fs[b])
         IN  IF MergeFailed(fs[b]) THEN r
             ELSE UnirLoopScanAbort(r, sc, Tail(order), fs)

\* the loop of lines 234-265 over the groups of a scan
RECURSIVE UnirLoopScan(_, _, _, _)
UnirLoopScan(d, sc, order, fs) ==
    IF order = <<>> THEN d
    ELSE LET b == Head(order)
         IN  UnirLoopScan(UnirGrupo(d, b, PartesSort(PartesDe(sc, b)), fs[b]),
                          sc, Tail(order), fs)

\* the part numbers whose text the call read into {base}.txt
Built(old, b, grupos, fs) ==
    IF b \notin DOMAIN grupos \/ fs[b].open THEN old[b]
    ELSE LET ps == SortPartes(grupos[b])
             last == IF fs[b].read > 0 THEN fs[b].read - 1 ELSE Len(ps)
         IN  {ps[i] : i \in 1..last}

(***************************************************************************)
(* transcribir_audio (mp3_to_txt.py 19-82)                                 *)
(***************************************************************************)
\* how one call ends: model.transcribe raises, open(txt_path, 'w') raises,
\* f.write(texto) raises after the file was opened, or nothing raises
Outcomes == {"transcribe_raises", "open_raises", "write_raises", "ok"}

\* txt/ after transcribir_audio(mp3_path, txt_path, model, language)
TranscribirAudioTxt(d, txt_path, outcome, texto, parcial) ==
    CASE outcome = "ok" -> Put(d, txt_path, texto)
      [] outcome = "write_raises" -> Put(d, txt_path, parcial)
      [] OTHER -> d

\* its return value (line 75 / line 82)
TranscribirAudioRet(outcome) == outcome = "ok"

(***************************************************************************)
(* transcribir_mp3s_a_txt (mp3_to_txt.py 85-205)                           *)
(***************************************************************************)
\* txt_filename = mp3_file.stem + ".txt"
TxtPath(mp3_file) == mp3_file

\* txt_path.exists() (line 155)
Skip(d, mp3_file) == TxtPath(mp3_file) \in DOMAIN d

\* lines 98-145: scan mp3/, read the configuration, load the shared model
StartRun ==
    /\ pc = "idle"
    /\ Len(results) < MaxRuns
    /\ invoked' = {}
    /\ cur' = NoUnit
    /\ UNCHANGED <<txt, load_model_per_file, built, unir_err, left_by_unir, mp3>>
    /\ UNCHANGED convVars
    /\ UNCHANGED mainVars
    /\ IF DOMAIN mp3 = {}
       THEN \* line 107: no mp3 file, return False
            /\ results' = Append(results, FALSE)
            /\ UNCHANGED <<pc, todo, model, success_count, n_files, faults>>
       ELSE \/ \* the model is loaded per file, or the shared load succeeds
               /\ model' = IF load_model_per_file THEN "none" ELSE "loaded"
               /\ todo' = DOMAIN mp3
               /\ n_files' = Cardinality(DOMAIN mp3)
               /\ success_count' = 0
               /\ pc' = "loop"
               /\ UNCHANGED <<results, faults>>
            \/ \* lines 143-145: whisper.load_model raises, return False;
               \* the mp3_files of line 104 are left unvisited
               /\ ~load_model_per_file
               /\ faults < MaxFaults
               /\ faults' = faults + 1
               /\ todo' = DOMAIN mp3
               /\ results' = Append(results, FALSE)
               /\ UNCHANGED <<pc, model, success_count, n_files>>

\* lines 149-160: the head of one iteration, mp3_files in scan order
NextFile ==
    /\ pc = "loop"
    /\ \E f \in todo :
        /\ todo' = todo \ {f}
        /\ IF Skip(txt, f)
           THEN /\ success_count' = success_count + 1
                /\ UNCHANGED <<pc, cur>>
           ELSE /\ cur' = f
                /\ pc' = IF load_model_per_file THEN "load" ELSE "transcribe"
                /\ UNCHANGED success_count
    /\ UNCHANGED <<txt, load_model_per_file, model, n_files, results, invoked,
                   built, unir_err, left_by_unir, faults, mp3>>
    /\ UNCHANGED convVars
    /\ UNCHANGED mainVars

\* a load whose failure ends the loop instead of going on to the next file
LoadModelAbort ==
    /\ pc = "load"
    /\ \/ /\ model' = "loaded"
          /\ pc' = "transcribe"
          /\ UNCHANGED <<cur, faults>>
       \/ /\ faults < MaxFaults
          /\ faults' = faults + 1
          /\ pc' = "unir"
          /\ cur' = NoUnit
          /\ UNCHANGED model
    /\ UNCHANGED <<txt, load_model_per_file, todo, success_count, n_files,
                   results, invoked, built, unir_err, left_by_unir, mp3>>
    /\ UNCHANGED convVars
    /\ UNCHANGED mainVars

\* lines 163-170: whisper.load_model for this file
LoadModel ==
    /\ pc = "load"
    /\ \/ /\ model' = "loaded"
          /\ pc' = "transcribe"
          /\ UNCHANGED <<cur, faults>>
       \/ \* line 170: continue
          /\ faults < MaxFaults
          /\ faults' = faults + 1
          /\ pc' = "loop"
          /\ cur' = NoUnit
          /\ UNCHANGED model
    /\ UNCHANGED <<txt, load_model_per_file, todo, success_count, n_files,
                   results, invoked, built, unir_err, left_by_unir, mp3>>
    /\ UNCHANGED convVars
    /\ UNCHANGED mainVars

\* lines 173-177: transcribir_audio and the count of its success
Transcribe ==
    /\ pc = "transcribe"
    /\ \E outcome \in Outcomes, texto \in Texts :
       \E parcial \in Prefixes(texto) :
        /\ outcome # "ok" => faults < MaxFaults
        /\ faults' = IF outcome = "ok" THEN faults ELSE faults + 1
        /\ invoked' = invoked \cup {cur}
        /\ txt' = TranscribirAudioTxt(txt, TxtPath(cur), outcome, texto, parcial)
        /\ built' = IF cur[2] = 0 /\ txt' # txt
                    THEN [built EXCEPT ![cur[1]] = {}] ELSE built
        /\ left_by_unir' = (left_by_unir /\ txt' = txt)
        /\ success_count' = IF TranscribirAudioRet(outcome)
                            THEN success_count + 1 ELSE success_count
    /\ pc' = "release"
    /\ UNCHANGED <<load_model_per_file, todo, cur, model, n_files, results,
                   unir_err, mp3>>
    /\ UNCHANGED convVars
    /\ UNCHANGED mainVars

\* an end of the iteration that keeps the model
ReleaseKeep ==
    /\ pc = "release"
    /\ cur' = NoUnit
    /\ pc' = "loop"
    /\ UNCHANGED <<txt, load_model_per_file, todo, model, success_count, n_files,
                   results, invoked, built, unir_err, left_by_unir, faults, mp3>>
    /\ UNCHANGED convVars
    /\ UNCHANGED mainVars

\* lines 180-191: del model in per-file mode
Release ==
    /\ pc = "release"
    /\ model' = IF load_model_per_file /\ model # "none" THEN "none" ELSE model
    /\ cur' = NoUnit
    /\ pc' = "loop"
    /\ UNCHANGED <<txt, load_model_per_file, todo, success_count, n_files,
                   results, invoked, built, unir_err, left_by_unir, faults, mp3>>
    /\ UNCHANGED convVars
    /\ UNCHANGED mainVars

\* an end of the loop that does not wait for the last file
EndLoopEarly ==
    /\ pc = "loop"
    /\ model' = "none"
    /\ pc' = "unir"
    /\ UNCHANGED <<txt, load_model_per_file, todo, cur, success_count, n_files,
                   results, invoked, built, unir_err, left_by_unir, faults, mp3>>
    /\ UNCHANGED convVars
    /\ UNCHANGED mainVars

\* lines 193-200: the loop is over, the summary is printed, the model dropped
EndLoop ==
    /\ pc = "loop"
    /\ todo = {}
    /\ model' = "none"
    /\ pc' = "unir"
    /\ UNCHANGED <<txt, load_model_per_file, todo, cur, success_count, n_files,
                   results, invoked, built, unir_err, left_by_unir, faults, mp3>>
    /\ UNCHANGED convVars
    /\ UNCHANGED mainVars

\* lines 203-205: unir_archivos_relacionados(txt_dir), then the return value
Unir ==
    /\ pc = "unir"
    /\ \E grupos \in {Grupos(txt)} :
       \E order \in Orders(DOMAIN grupos) :
       \E fs \in [DOMAIN grupos -> UNION {GroupFaults(SortPartes(grupos[b])) :
                                            b \in DOMAIN grupos}] :
        /\ \A b \in DOMAIN grupos : fs[b] \in GroupFaults(SortPartes(grupos[b]))
        /\ \E cost \in {SumCost(fs, DOMAIN grupos)} :
            /\ faults + cost <= MaxFaults
            /\ faults' = faults + cost
        /\ txt' = unir_archivos_relacionados(txt, order, fs)
        /\ built' = [b \in Bases |-> Built(built, b, grupos, fs)]
        /\ unir_err' = [merge |-> {b \in DOMAIN grupos : MergeFailed(fs[b])},
                        unlink |-> UNION {{<<b, n>> : n \in fs[b].unlink} :
                                            b \in DOMAIN grupos}]
    /\ left_by_unir' = TRUE
    /\ results' = Append(results, success_count = n_files)
    /\ pc' = "idle"
    /\ UNCHANGED <<load_model_per_file, todo, cur, model, success_count,
                   n_files, invoked, mp3>>
    /\ UNCHANGED convVars
    /\ UNCHANGED mainVars

\* the orders in which txt_dir.iterdir() may return the part files of d:
\* every order of a few files; of many files the ascending, the descending
\* and the file-name order of their numbers
Scans(d) ==
    IF Cardinality(Matching(d)) <= MaxGroup THEN Orders(Matching(d))
    ELSE LET k == Cardinality(Matching(d))
             b == (CHOOSE n \in Matching(d) : TRUE)[1]
             asc == SortPartes({n[2] : n \in Matching(d)})
             lex == PartesSortLex(asc)
         IN  { [i \in 1..k |-> <<b, asc[i]>>],
               [i \in 1..k |-> <<b, asc[k + 1 - i]>>],
               [i \in 1..k |-> <<b, lex[i]>>] }

\* unir_archivos_relacionados(txt_dir) called on a directory (lines 208-265)
UnirCall ==
    /\ pc = "call"
    /\ \E sc \in Scans(txt) :
       \E grupos \in {Grupos(txt)} :
       \E order \in {GruposOrder(sc, {})} :
       \E fs \in [DOMAIN grupos -> UNION {GroupFaults(PartesSort(PartesDe(sc, b))) :
                                            b \in DOMAIN grupos}] :
        /\ \A b \in DOMAIN grupos : fs[b] \in GroupFaults(PartesSort(PartesDe(sc, b)))
        /\ \E cost \in {SumCost(fs, DOMAIN grupos)} :
            /\ faults + cost <= MaxFaults
            /\ faults' = faults + cost
        /\ scan' = sc
        /\ txt' = UnirLoopScan(txt, sc, order, fs)
        /\ built' = [b \in Bases |-> Built(built, b, grupos, fs)]
        /\ unir_err' = [merge |-> {b \in DOMAIN grupos : MergeFailed(fs[b])},
                        unlink |-> UNION {{<<b, n>> : n \in fs[b].unlink} :
                                            b \in DOMAIN grupos}]
    /\ left_by_unir' = TRUE
    /\ pc' = "done"
    /\ UNCHANGED <<load_model_per_file, todo, cur, model, success_count,
                   n_files, results, invoked, mp3, proc>>
    /\ UNCHANGED convVars

(***************************************************************************)
(* video_to_mp3.py                                                         *)
(***************************************************************************)
\* dividir_audio(..., max_size_mb=50, chunk_duration_minutes=30)
max_size_mb == 50

chunk_duration_minutes == 30

\* chunk_duration_seconds = chunk_duration_minutes * 60 (line 81)
chunk_duration_seconds == chunk_duration_minutes * 60

\* bytes in the unit of file_size_mb (line 68)
BytesPerMb == 1024 * 1024

\* st_size of an extracted file: one byte below the threshold, at it, and
\* one byte above it
Sizes ==
    { max_size_mb * BytesPerMb - 1, max_size_mb * BytesPerMb,
      max_size_mb * BytesPerMb + 1 }

\* a test that also splits a file of exactly the maximum size
OversizedOrEqual(size) == size >= max_size_mb * BytesPerMb

\* file_size_mb > max_size_mb, the negation of the test of line 70
Oversized(size) == size > max_size_mb * BytesPerMb

\* durations in seconds: none, less than a chunk, and each multiple of the
\* chunk length with and without a tail of one second
Durs ==
    {0, chunk_duration_seconds - 1} \cup
    { D \in { k * chunk_duration_seconds + e : k \in 1..MaxPart, e \in {0, 1} } :
        D <= MaxPart * chunk_duration_seconds }

\* the audio track of a video: the size of the mp3 extracted from it, and
\* the 'duration' entry of streams[0] that ffmpeg.probe returns for it, if
\* it has one
Media ==
    { m \in [size : Sizes, has_duration : BOOLEAN, duration : Durs] :
        ~m.has_duration => m.duration = 0 }

\* what ffmpeg.probe does on the mp3 of track m: it raises, or returns
ProbeOutcome(m, raises) ==
    [raises |-> raises, has_duration |-> m.has_duration, duration |-> m.duration]

\* the audio written by extraer_audio: the whole track, no -ss / -t
WholeAudio == [ss |-> 0, t |-> 0]

\* obtener_duracion_audio (lines 35-51): <<>> is None, <<D>> is the float D
obtener_duracion_audio(probe) ==
    IF probe.raises THEN <<>>
    ELSE << IF probe.has_duration THEN probe.duration ELSE 0 >>

\* a division that rounds down
FloorDiv(D, C) == D \div C

\* math.ceil(duration / chunk_duration_seconds), duration >= 0
CeilDiv(D, C) == (D + C - 1) \div C

Min(x, y) == IF x <= y THEN x ELSE y

\* the loop of lines 90-116; failAt = k > 0: the ffmpeg run of chunk k raises
RECURSIVE DividirLoop(_, _, _, _, _, _, _)
DividirLoop(d, base_name, duration, num_chunks, i, chunks, failAt) ==
    IF i >= num_chunks THEN [dir |-> d, chunks |-> chunks, ok |-> TRUE]
    ELSE LET start_time == i * chunk_duration_seconds
             chunk_path == <<base_name, i + 1>>
             remaining_duration == duration - start_time
             actual_chunk_duration == Min(chunk_duration_seconds, remaining_duration)
         IN  IF actual_chunk_duration <= 0
             THEN [dir |-> d, chunks |-> chunks, ok |-> TRUE]
             ELSE IF failAt = i + 1
             THEN [dir |-> UnlinkAll(d, {chunks[j] : j \in 1..Len(chunks)}),
                   chunks |-> chunks, ok |-> FALSE]
             ELSE DividirLoop(Put(d, chunk_path,
                                  [ss |-> start_time, t |-> actual_chunk_duration]),
                              base_name, duration, num_chunks, i + 1,
                              Append(chunks, chunk_path), failAt)

\* the return value None
NotSplit(d, probed) == [dir |-> d, ret |-> "None", chunks |-> <<>>, probed |-> probed]

\* dividir_audio (lines 54-125): the directory it leaves and what it returns
dividir_audio(d, audio_path, size, probe, failAt, unlinkFails) ==
    IF ~Oversized(size) THEN NotSplit(d, FALSE)
    ELSE LET duration == obtener_duracion_audio(probe) IN
         IF duration = <<>> THEN NotSplit(d, TRUE)
         ELSE LET num_chunks == CeilDiv(duration[1], chunk_duration_seconds)
                  r == DividirLoop(d, audio_path[1], duration[1], num_chunks, 0,
                                   <<>>, failAt)
              IN  IF ~r.ok THEN NotSplit(r.dir, TRUE)
                  ELSE [dir |-> IF unlinkFails THEN r.dir ELSE Unlink(r.dir, audio_path),
                        ret |-> "chunks", chunks |-> r.chunks, probed |-> TRUE]

\* the record of a call of dividir_audio: its arguments and its result
NoSplit ==
    [path |-> NoUnit, size |-> 0, duration |-> <<>>, failAt |-> 0,
     ret |-> "None", chunks |-> <<>>, probed |-> FALSE]

\* lines 133-161: scan videos/
ConvStart ==
    /\ cpc = "idle"
    /\ Len(conv_results) < MaxRuns
    /\ IF DOMAIN videos = {}
       THEN /\ conv_results' = Append(conv_results, FALSE)
            /\ UNCHANGED <<cpc, vtodo, conv_success>>
       ELSE /\ vtodo' = DOMAIN videos
            /\ conv_success' = 0
            /\ cpc' = "loop"
            /\ UNCHANGED conv_results
    /\ UNCHANGED <<videos, vcur, split, mp3, faults>>
    /\ UNCHANGED txtVars
    /\ UNCHANGED mainVars

\* lines 165-172, 181-182: extraer_audio for the next video
Extraer ==
    /\ cpc = "loop"
    /\ \E v \in vtodo :
        /\ vtodo' = vtodo \ {v}
        /\ \/ /\ mp3' = Put(mp3, v, WholeAudio)
              /\ vcur' = v
              /\ cpc' = "dividir"
              /\ UNCHANGED faults
           \/ \* ffmpeg raises: extraer_audio returns False
              /\ faults < MaxFaults
              /\ faults' = faults + 1
              /\ UNCHANGED <<mp3, vcur, cpc>>
    /\ UNCHANGED <<videos, conv_success, conv_results, split>>
    /\ UNCHANGED txtVars
    /\ UNCHANGED mainVars

\* lines 173-180: dividir_audio(mp3_path, mp3_dir, ...), success_count += 1
Dividir ==
    /\ cpc = "dividir"
    /\ \E raises \in BOOLEAN, unlinkFails \in BOOLEAN :
       \E failAt \in 0..CeilDiv(videos[vcur].duration, chunk_duration_seconds) :
       \E probe \in {ProbeOutcome(videos[vcur], raises)} :
       \E r \in {dividir_audio(mp3, vcur, videos[vcur].size, probe, failAt,
                               unlinkFails)} :
       \E cost \in {(IF raises THEN 1 ELSE 0) + (IF failAt > 0 THEN 1 ELSE 0)
                    + (IF unlinkFails THEN 1 ELSE 0)} :
           \* a failure is drawn only where the call reaches it
           /\ raises => r.probed
           /\ failAt > 0 => (r.probed /\ ~raises /\ r.ret = "None")
           /\ unlinkFails => r.ret = "chunks"
           /\ faults + cost <= MaxFaults
           /\ faults' = faults + cost
           /\ mp3' = r.dir
           /\ split' = [path |-> vcur, size |-> videos[vcur].size,
                        duration |-> IF r.probed THEN obtener_duracion_audio(probe)
                                     ELSE <<>>,
                        failAt |-> failAt, ret |-> r.ret, chunks |-> r.chunks,
                        probed |-> r.probed]
    /\ conv_success' = conv_success + 1
    /\ vcur' = NoUnit
    /\ cpc' = "loop"
    /\ UNCHANGED <<videos, vtodo, conv_results>>
    /\ UNCHANGED txtVars
    /\ UNCHANGED mainVars

\* lines 184-185: the summary and the return value
ConvEnd ==
    /\ cpc = "loop"
    /\ vtodo = {}
    /\ conv_results' = Append(conv_results, conv_success = Cardinality(DOMAIN videos))
    /\ cpc' = "idle"
    /\ UNCHANGED <<videos, vtodo, vcur, conv_success, split, mp3, faults>>
    /\ UNCHANGED txtVars
    /\ UNCHANGED mainVars

(***************************************************************************)
(* The scripts as processes: the __main__ blocks                           *)
(***************************************************************************)
\* mp3_to_txt.py 268-277: exit(1) when transcribir_mp3s_a_txt returned
\* False, the end of the script (status 0) otherwise
MainTxt ==
    /\ proc.txt = "run"
    /\ pc = "idle"
    /\ results # <<>>
    /\ proc' = [proc EXCEPT !.txt = IF results[1] THEN "exit0" ELSE "exit1"]
    /\ UNCHANGED <<scan, mp3, faults>>
    /\ UNCHANGED txtVars
    /\ UNCHANGED convVars

\* video_to_mp3.py 193-210 after convertir_videos_a_mp3 has returned:
\* sys.exit(1) on False; on True os.system runs mp3_to_txt.py
MainConv ==
    /\ proc.conv = "run"
    /\ cpc = "idle"
    /\ conv_results # <<>>
    /\ proc' = IF conv_results[1] THEN [conv |-> "chain", txt |-> "run"]
               ELSE [proc EXCEPT !.conv = "exit1"]
    /\ UNCHANGED <<scan, mp3, faults>>
    /\ UNCHANGED txtVars
    /\ UNCHANGED convVars

\* video_to_mp3.py 205: os.system returns, its value is dropped, and the
\* script ends (status 0)
MainConvExit ==
    /\ proc.conv = "chain"
    /\ proc.txt \in {"exit0", "exit1"}
    /\ proc' = [proc EXCEPT !.conv = "exit0"]
    /\ UNCHANGED <<scan, mp3, faults>>
    /\ UNCHANGED txtVars
    /\ UNCHANGED convVars

(***************************************************************************)
(* Specifications                                                          *)
(***************************************************************************)
\* the chunk b_part{n}.mp3 of a split at the default chunk length
ChunkAudio(n) == [ss |-> (n - 1) * chunk_duration_seconds,
                  t |-> chunk_duration_seconds]

AudioDir(S) == [n \in S |-> IF n[2] = 0 THEN WholeAudio ELSE ChunkAudio(n[2])]

\* mp3/ as conversions leave it: a whole file, the chunks of a split file,
\* a whole file beside the chunks of another
AudioDirs ==
    { AudioDir({<<"a", 0>>}),
      AudioDir({<<"a", 1>>, <<"a", 2>>, <<"a", 3>>}),
      AudioDir({<<"b", 0>>, <<"a", 1>>, <<"a", 2>>}) }

\* transcribir_mp3s_a_txt is not running
TxtRest ==
    /\ todo = {}
    /\ cur = NoUnit
    /\ model = "none"
    /\ success_count = 0
    /\ n_files = 0
    /\ results = <<>>
    /\ invoked = {}
    /\ built = [b \in Bases |-> {}]
    /\ unir_err = [merge |-> {}, unlink |-> {}]
    /\ left_by_unir = FALSE

TxtIdle ==
    /\ txt = EmptyDir
    /\ pc = "idle"
    /\ TxtRest

\* no script runs as a process, no directory scan was made
MainIdle ==
    /\ scan = <<>>
    /\ proc = [conv |-> "off", txt |-> "off"]

ConvIdle ==
    /\ cpc = "idle"
    /\ vtodo = {}
    /\ vcur = NoUnit
    /\ conv_success = 0
    /\ conv_results = <<>>
    /\ split = NoSplit

\* the transcription script over a converted mp3/
Init ==
    /\ videos = EmptyDir
    /\ mp3 \in AudioDirs
    /\ load_model_per_file \in BOOLEAN
    /\ faults = 0
    /\ TxtIdle
    /\ ConvIdle
    /\ MainIdle

Next ==
    \/ StartRun
    \/ NextFile
    \/ LoadModel
    \/ Transcribe
    \/ Release
    \/ EndLoop
    \/ Unir

Spec == Init /\ [][Next]_vars

\* the conversion script over videos/
InitConv ==
    /\ videos \in [{<<"a", 0>>} -> Media] \cup [{<<"a", 0>>, <<"b", 0>>} -> Media]
    /\ mp3 = EmptyDir
    /\ load_model_per_file = TRUE
    /\ faults = 0
    /\ TxtIdle
    /\ ConvIdle
    /\ MainIdle

NextConv ==
    \/ ConvStart
    \/ Extraer
    \/ Dividir
    \/ ConvEnd

SpecConv == InitConv /\ [][NextConv]_vars

\* the tracks of the videos of a pipeline run: of the maximum size or a
\* byte more, with no duration or with one chunk length and a second
PipeMedia ==
    { m \in Media : /\ m.size >= max_size_mb * BytesPerMb
                    /\ m.duration \in {0, chunk_duration_seconds + 1} }

\* videos/ of a pipeline run: a.mp4, alone or beside a small b.mp4
PipeVideos ==
    [{<<"a", 0>>} -> PipeMedia]
    \cup { v \in [{<<"a", 0>>, <<"b", 0>>} -> PipeMedia] :
             ~Oversized(v[<<"b", 0>>].size) }

\* one run of a script: python video_to_mp3.py over videos/, or python
\* mp3_to_txt.py over a converted mp3/
InitPipeline ==
    /\ \/ /\ videos \in PipeVideos
          /\ mp3 = EmptyDir
          /\ proc = [conv |-> "run", txt |-> "off"]
       \/ /\ videos = EmptyDir
          /\ mp3 \in AudioDirs
          /\ proc = [conv |-> "off", txt |-> "run"]
    /\ load_model_per_file \in BOOLEAN
    /\ faults = 0
    /\ scan = <<>>
    /\ TxtIdle
    /\ ConvIdle

\* convertir_videos_a_mp3 as called by the __main__ of video_to_mp3.py
PipeConv ==
    /\ proc.conv = "run"
    /\ conv_results = <<>>
    /\ NextConv

\* transcribir_mp3s_a_txt as called by the __main__ of mp3_to_txt.py
PipeTxt ==
    /\ proc.txt = "run"
    /\ results = <<>>
    /\ Next

NextPipeline ==
    \/ PipeConv
    \/ MainConv
    \/ PipeTxt
    \/ MainTxt
    \/ MainConvExit

SpecPipeline == InitPipeline /\ [][NextPipeline]_vars

\* the characters of the decimal digits
DigitChars == <<"0", "1", "2", "3", "4", "5", "6", "7", "8", "9">>

\* str(n)
Spell(n) == [i \in 1..Len(Digits(n)) |-> DigitChars[Digits(n)[i] + 1]]

\* a_part{n}.txt for n in S, each holding the spelling of its number
NumDir(S) == [n \in {"a"} \X S |-> Spell(n[2])]

\* groups of a few parts numbered up to MaxNum, and the group of all of them
OrdenDirs ==
    { NumDir(S) : S \in {T \in SUBSET (1..MaxNum) :
                            T # {} /\ Cardinality(T) <= MaxGroup} }
    \cup { NumDir(1..MaxNum) }

\* whole transcripts and part files of two base names, in every combination
SmallDirs ==
    UNION { [S -> Texts] :
            S \in SUBSET {<<"a", 0>>, <<"a", 1>>, <<"a", 2>>, <<"b", 0>>, <<"b", 1>>} }

\* unir_archivos_relacionados over a given text directory
InitUnir ==
    /\ videos = EmptyDir
    /\ mp3 = EmptyDir
    /\ load_model_per_file = TRUE
    /\ faults = 0
    /\ txt \in OrdenDirs \cup SmallDirs
    /\ pc = "call"
    /\ TxtRest
    /\ ConvIdle
    /\ MainIdle

NextUnir == UnirCall

SpecUnir == InitUnir /\ [][NextUnir]_vars

(***************************************************************************)
(* Properties                                                              *)
(***************************************************************************)
\* the part numbers of the chunk files of base b in mp3/
ChunksOf(b) == {n \in 1..MaxPart : <<b, n>> \in DOMAIN mp3}

\* the part numbers of the part files of base b in directory d
PartsIn(d, b) == {n \in 1..MaxPart : <<b, n>> \in DOMAIN d}

\* C1: a source split into three chunks never has a truncated merge whose
\* part files are gone: whenever its {base}.txt is a merge, the merge was
\* built from every chunk of the source, or the part files it was built
\* from are still in txt/ (so that the missing chunk can be added later).
C1_NoTruncatedMerge ==
    \A b \in Bases :
        (/\ Cardinality(ChunksOf(b)) = 3
         /\ <<b, 0>> \notin DOMAIN mp3
         /\ <<b, 0>> \in DOMAIN txt
         /\ built[b] # {})
        => \/ built[b] = ChunksOf(b)
           \/ \E n \in built[b] : <<b, n>> \in DOMAIN txt

\* C2: a second run after a first run that transcribed every unit gives no
\* unit to the Transcriber.
C2_SecondRunInvokesNothing ==
    (Len(results) = 1 /\ results[1] /\ pc # "idle") => invoked = {}

\* C5: a transcribir_audio that returns failure leaves no file at txt_path.
C5_FailureLeavesNoTxt ==
    [][(pc = "transcribe" /\ success_count' = success_count)
        => TxtPath(cur) \notin DOMAIN txt']_vars

(***************************************************************************)
(* Properties of dividir_audio, under SpecConv                             *)
(***************************************************************************)
\* C3: dividir_audio of an oversized file whose duration is unavailable
\* (the probe raised, or gave no or a zero duration) returns None, creates
\* no chunk and leaves the original in place: mp3/ is unchanged.
C3_NoSplitWithoutDuration ==
    [][(/\ cpc = "dividir"
        /\ Oversized(split'.size)
        /\ split'.probed
        /\ split'.duration \in {<<>>, <<0>>})
        => (split'.ret = "None" /\ mp3' = mp3)]_vars

\* C4: when the creation of a chunk fails, dividir_audio returns None, no
\* chunk file of the base name is left in mp3/, and the original is there
\* unchanged.
C4_SplitRollback ==
    [][(cpc = "dividir" /\ split'.failAt > 0)
        => /\ split'.ret = "None"
           /\ \A n \in 1..MaxPart : <<vcur[1], n>> \notin DOMAIN mp3'
           /\ vcur \in DOMAIN mp3'
           /\ mp3'[vcur] = mp3[vcur]]_vars

\* C17: dividir_audio of a file whose size is at most the maximum returns
\* None without probing the file and leaves mp3/ as it was: no chunk is
\* created and the original is unchanged.
C17_NoSplitAtOrBelowThreshold ==
    [][(cpc = "dividir" /\ videos[vcur].size <= max_size_mb * BytesPerMb)
        => /\ split'.ret = "None"
           /\ split'.chunks = <<>>
           /\ ~split'.probed
           /\ vcur \in DOMAIN mp3'
           /\ mp3' = mp3]_vars

\* dividir_audio has returned None for a file of exactly the maximum size,
\* which is still in mp3/
C17_Witness ==
    /\ split.path # NoUnit
    /\ split.size = max_size_mb * BytesPerMb
    /\ split.ret = "None"
    /\ ~split.probed
    /\ split.path \in DOMAIN mp3
    /\ mp3[split.path] = WholeAudio

\* C14: when the creation of a chunk fails, convertir_videos_a_mp3 does not
\* count the video as a success, and the original audio is still in mp3/.
C14_SplitFailureNotCounted ==
    [][(cpc = "dividir" /\ split'.failAt > 0)
        => /\ conv_success' = conv_success
           /\ vcur \in DOMAIN mp3']_vars

\* ceil(D / C) by its definition: the least n with n * C >= D
CeilOf(D, C) == CHOOSE n \in 0..D : n * C >= D /\ (n - 1) * C < D

RECURSIVE SumT(_, _)
SumT(d, chunks) ==
    IF chunks = <<>> THEN 0 ELSE d[Head(chunks)].t + SumT(d, Tail(chunks))

\* C6: a successful split of an oversized file of duration D > 0 creates
\* exactly ceil(D / C) chunks, numbered 1..ceil(D / C); chunk i starts at
\* (i - 1) * C and lasts min(C, D - (i - 1) * C); the lengths sum to D.
C6_ChunkAccounting ==
    [][(/\ cpc = "dividir"
        /\ split'.ret = "chunks"
        /\ split'.duration # <<>>
        /\ split'.duration[1] > 0)
        => LET D == split'.duration[1]
               C == chunk_duration_seconds
               n == CeilOf(D, C)
           IN  /\ Oversized(split'.size)
               /\ Len(split'.chunks) = n
               /\ \A i \in 1..n :
                    /\ split'.chunks[i] = <<vcur[1], i>>
                    /\ <<vcur[1], i>> \in DOMAIN mp3'
                    /\ mp3'[<<vcur[1], i>>] =
                         [ss |-> (i - 1) * C,
                          t |-> IF C <= D - (i - 1) * C THEN C
                                ELSE D - (i - 1) * C]
               /\ SumT(mp3', split'.chunks) = D]_vars

\* a file of two chunks and one second was split into three chunks
C6_Witness ==
    /\ split.ret = "chunks"
    /\ split.duration = <<2 * chunk_duration_seconds + 1>>
    /\ Len(split.chunks) = 3
    /\ mp3[<<split.path[1], 3>>].t = 1

(***************************************************************************)
(* Properties of unir_archivos_relacionados, under Spec                    *)
(***************************************************************************)
\* the elements of a set of numbers in ascending order
AscSeq(S) ==
    CHOOSE q \in [1..Cardinality(S) -> S] :
        \A i, j \in 1..Cardinality(S) : i < j => q[i] < q[j]

\* the trimmed contents of the part files of base b, in part order
Trimmed(d, b) ==
    [i \in 1..Cardinality(PartsIn(d, b)) |->
        Strip(d[<<b, AscSeq(PartsIn(d, b))[i]>>])]

\* the texts joined by one blank line
RECURSIVE Join(_)
Join(ts) ==
    IF ts = <<>> THEN <<>>
    ELSE IF Len(ts) = 1 THEN ts[1]
    ELSE ts[1] \o Sep \o Join(Tail(ts))

IsNonEmpty(t) == t # <<>>

\* C7 as stated: a call in which no I/O operation fails turns every group
\* whose part files have non-empty contents into {base}.txt = the trimmed
\* contents joined by "\n\n" in part order, and removes every part file.
C7_AsStated ==
    [][(pc = "unir" /\ faults' = faults)
        => \A b \in Bases :
            (/\ PartsIn(txt, b) # {}
             /\ \A n \in PartsIn(txt, b) : txt[<<b, n>>] # <<>>)
            => /\ <<b, 0>> \in DOMAIN txt'
               /\ txt'[<<b, 0>>] = Join(Trimmed(txt, b))
               /\ PartsIn(txt', b) = {}]_vars

\* C7 as amended: a call in which no I/O operation fails turns every group
\* whose parts are non-empty after trimming into {base}.txt = the trimmed
\* contents joined by "\n\n" in part order, and removes every part file.
C7_AssemblyRoundTrip ==
    [][(pc = "unir" /\ faults' = faults)
        => \A b \in Bases :
            (/\ PartsIn(txt, b) # {}
             /\ \A n \in PartsIn(txt, b) : Strip(txt[<<b, n>>]) # <<>>)
            => /\ <<b, 0>> \in DOMAIN txt'
               /\ txt'[<<b, 0>>] = Join(Trimmed(txt, b))
               /\ PartsIn(txt', b) = {}]_vars

\* the parts " A" and "B" were merged into "A\n\nB" and removed
C7_Witness ==
    /\ pc = "idle"
    /\ left_by_unir
    /\ unir_err = [merge |-> {}, unlink |-> {}]
    /\ built["a"] = {1, 2}
    /\ PartsIn(txt, "a") = {}
    /\ <<"a", 0>> \in DOMAIN txt
    /\ txt[<<"a", 0>>] = <<"A", "\n", "\n", "B">>

\* C8: whatever parts are empty after trimming, the merged file is the
\* non-empty trimmed contents in part order with one "\n\n" between
\* consecutive ones.
C8_SeparatorHandling ==
    [][(pc = "unir" /\ faults' = faults)
        => \A b \in Bases :
            PartsIn(txt, b) # {}
            => /\ <<b, 0>> \in DOMAIN txt'
               /\ txt'[<<b, 0>>] =
                    Join(SelectSeq(Trimmed(txt, b), IsNonEmpty))]_vars

\* C9: on a directory left by a call of unir_archivos_relacionados whose
\* merges all succeeded (deletions of parts may have failed), a further
\* call changes the content of no {base}.txt: the merged files keep the
\* full concatenation.
C9_AssemblyIdempotent ==
    [][(pc = "unir" /\ left_by_unir /\ unir_err.merge = {})
        => \A n \in DOMAIN txt :
            n[2] = 0 => (n \in DOMAIN txt' /\ txt'[n] = txt[n])]_vars

\* the transcript files of base b in txt/
FilesOf(b) == {n \in 0..MaxPart : <<b, n>> \in DOMAIN txt}

\* C10 as stated: after unir_archivos_relacionados has returned, every base
\* name has at most one transcript file.
C10_AtMostOneOutput ==
    left_by_unir => \A b \in Bases : Cardinality(FilesOf(b)) <= 1

\* C10 as amended: after unir_archivos_relacionados has returned, a part
\* file is in txt/ only if the merge of its group raised or its own
\* deletion raised; every other base name has at most one transcript file.
C10_LeftoverOnlyAfterFailure ==
    left_by_unir =>
        \A b \in Bases :
            /\ \A n \in PartsIn(txt, b) :
                b \in unir_err.merge \/ <<b, n>> \in unir_err.unlink
            /\ (b \notin unir_err.merge /\ \A n \in 1..MaxPart : <<b, n>> \notin unir_err.unlink)
                => Cardinality(FilesOf(b)) <= 1

\* a group of three parts was merged without failure and {base}.txt is the
\* only transcript file of its base name
C10_Witness ==
    /\ left_by_unir
    /\ pc = "idle"
    /\ built["a"] = {1, 2, 3}
    /\ FilesOf("a") = {0}
    /\ "a" \notin unir_err.merge

(***************************************************************************)
(* Properties of unir_archivos_relacionados, under SpecUnir                *)
(***************************************************************************)
\* the part numbers of the part files of base b in directory d
PartNums(d, b) == {n[2] : n \in {m \in Matching(d) : m[1] = b}}

\* the i-th smallest number of S
NthSmallest(S, i) == CHOOSE n \in S : Cardinality({m \in S : m < n}) = i - 1

\* the trimmed contents of the part files of base b by ascending number
ByNumber(d, b) ==
    [i \in 1..Cardinality(PartNums(d, b)) |->
        Strip(d[<<b, NthSmallest(PartNums(d, b), i)>>])]

\* C11: whatever order the directory scan returns the part files in, a call
\* in which nothing fails merges the parts of every group (of non-empty
\* parts) by ascending part number: part 10 comes after part 9.
C11_NumericOrder ==
    [][(pc = "call" /\ faults' = faults)
        => \A b \in Bases :
            (/\ PartNums(txt, b) # {}
             /\ \A n \in PartNums(txt, b) : Strip(txt[<<b, n>>]) # <<>>)
            => /\ <<b, 0>> \in DOMAIN txt'
               /\ txt'[<<b, 0>>] = Join(ByNumber(txt, b))]_vars

\* the parts 1..MaxNum, scanned in the order of their file names (1, 10, 2,
\* ...), were merged as 1, 2, ..., MaxNum
C11_Witness ==
    /\ pc = "done"
    /\ faults = 0
    /\ Len(scan) = MaxNum
    /\ scan[1] = <<"a", 1>>
    /\ scan[2] = <<"a", 10>>
    /\ DOMAIN txt = {<<"a", 0>>}
    /\ txt[<<"a", 0>>] = Join([i \in 1..MaxNum |-> Spell(i)])

\* C12: when the merge of a group fails (open of {base}.txt raises, or a
\* part cannot be read), every part file of that group is still in txt/
\* with its content, and every other group of the directory is merged into
\* its {base}.txt and its part files are deleted in the same call (but for
\* a part whose own deletion raised).
C12_MergeFailureIsolated ==
    [][(pc = "call" /\ unir_err'.merge # {})
        => \A b \in Bases :
            IF b \in unir_err'.merge
            THEN \A n \in PartNums(txt, b) :
                    /\ <<b, n>> \in DOMAIN txt'
                    /\ txt'[<<b, n>>] = txt[<<b, n>>]
            ELSE PartNums(txt, b) # {}
                 => /\ <<b, 0>> \in DOMAIN txt'
                    /\ (\A n \in PartNums(txt, b) : Strip(txt[<<b, n>>]) # <<>>)
                        => txt'[<<b, 0>>] = Join(ByNumber(txt, b))
                    /\ \A n \in PartNums(txt, b) :
                        <<b, n>> \in DOMAIN txt' => <<b, n>> \in unir_err'.unlink]_vars

\* the merge of group a, the first of the scan, failed and its two parts
\* are in place; group b was merged and its part deleted
C12_Witness ==
    /\ pc = "done"
    /\ scan # <<>>
    /\ scan[1][1] = "a"
    /\ unir_err = [merge |-> {"a"}, unlink |-> {}]
    /\ PartNums(txt, "a") = {1, 2}
    /\ built["b"] = {1}
    /\ PartNums(txt, "b") = {}
    /\ <<"b", 0>> \in DOMAIN txt
    /\ txt[<<"b", 0>>] = <<"B">>

(***************************************************************************)
(* Properties of the scripts as processes, under SpecPipeline              *)
(***************************************************************************)
\* the exit state of the script the user started
EntryExit == IF proc.conv # "off" THEN proc.conv ELSE proc.txt

\* the text of audio unit u is in txt/: in its own file, or read into the
\* merged file of its base name
HasTranscript(u) ==
    \/ TxtPath(u) \in DOMAIN txt
    \/ /\ u[2] > 0
       /\ u[2] \in built[u[1]]
       /\ <<u[1], 0>> \in DOMAIN txt

\* C13: the script the user started exits with status 0 only if every video
\* was converted and every audio unit of mp3/ has its transcript, and it
\* exits with a non-zero status only after some step failed.
C13_ExitOutcome ==
    /\ EntryExit = "exit0"
        => /\ \A u \in DOMAIN mp3 : HasTranscript(u)
           /\ \A v \in DOMAIN videos :
                \E u \in DOMAIN mp3 : u[1] = v[1]
    /\ EntryExit = "exit1" => (faults > 0 \/ DOMAIN mp3 = {})

HeldOnlyForUnit ==
    model = "loaded" <=> pc \in {"transcribe", "release"}

\* C18: in per-file mode (WHISPER_LOAD_PER_FILE) the model is held only
\* while a unit is transcribed, up to its release at the end of the
\* iteration, whatever the outcome: none is held between two units, for a
\* skipped unit or when the run ends; a unit whose load fails is not
\* counted, is not tried again, and the loop goes on with the other units.
C18_PerUnitModelLifecycle ==
    [][load_model_per_file
        => /\ HeldOnlyForUnit
           /\ HeldOnlyForUnit'
           /\ (pc = "load" /\ pc' # "transcribe")
                => /\ pc' = "loop"
                   /\ success_count' = success_count
                   /\ todo' = todo
                   /\ cur \notin todo'
                   /\ txt' = txt]_vars

\* per-file mode: the load for the first unit failed, and the model is now
\* loaded for the second unit of the run
C18_Witness ==
    /\ load_model_per_file
    /\ results = <<>>
    /\ pc = "transcribe"
    /\ model = "loaded"
    /\ Cardinality(DOMAIN mp3 \ todo) = 2
    /\ invoked = {}
    /\ success_count = 0
    /\ faults = 1
    /\ txt = EmptyDir

\* text t holds text s as a contiguous piece
Contains(t, s) ==
    \E i \in 1..(Len(t) - Len(s) + 1) : SubSeq(t, i, i + Len(s) - 1) = s

\* C19: after a call of unir_archivos_relacionados, the trimmed content of
\* every transcript file that was in txt/ before the call is held by some
\* file of txt/.
C19_NoTextLost ==
    [][pc = "call"
        => \A n \in DOMAIN txt :
            \E m \in DOMAIN txt' : Contains(txt'[m], Strip(txt[n]))]_vars

====
